---- MODULE Spec2Model ----
(***************************************************************************)
(* A model of the stateful components of the Reddit MCP server and of its  *)
(* error handler:                                                          *)
(*   - RateLimiter (src/src/tools/write.ts, lines 265-370), a token bucket *)
(*     with a queue of waiting acquire() promises and refill timers;       *)
(*   - RedditAuth (src/unnamed/part_000), the OAuth2 token cache;          *)
(*   - parseRedditError and retryWithBackoff (write.ts, lines 424-523).    *)
(*   - the tool-call dispatcher and the SSE endpoints                      *)
(*     (src/unnamed/part_002, lines 357-504 and 530-612).                  *)
(*                                                                         *)
(* Token counts are real numbers in the code.  The model keeps them exact  *)
(* by counting in units of 1/60000 token: refillRate = requestsPerMinute / *)
(* 60000 tokens per ms is then requestsPerMinute units per ms, and one     *)
(* token is 60000 units.                                                   *)
(*                                                                         *)
(* Date.now() only enters the limiter through differences, so the model    *)
(* keeps elapsed = Date.now() - lastRefill and, for each pending timer,    *)
(* the time left until it is due.  After 60000 ms the bucket is full for   *)
(* any capacity, so elapsed saturates there.                               *)
(***************************************************************************)
EXTENDS Integers, Sequences, FiniteSets, TLC

VARIABLES
    tokens,     \* RateLimiter.tokens, in units of 1/60000 token
    elapsed,    \* Date.now() - RateLimiter.lastRefill, in ms (saturated)
    queue,      \* RateLimiter.queue: the callers whose promise is queued
    timers,     \* pending setTimeout callbacks: ms left until due, ascending
    pc,         \* per caller: the state of its latest acquire() promise
    ev,         \* what the last limiter operation did
    burst,      \* acquire() calls since construction while no time has
                \* passed; -1 once the clock has moved or reset() was called
    window,     \* an interval of time under observation: its length so far
                \* and the acquire() calls granted in it
    accessToken,    \* RedditAuth.accessToken; 0 is null
    refreshToken,   \* RedditAuth.refreshToken; 0 is null
    tokenExpiry,    \* RedditAuth.tokenExpiry, in ms
    hasCredentials, \* config.username and config.password are both set
    now,            \* Date.now() as the auth manager reads it, in ms
    issued,         \* access tokens the authorization server has issued
    call,           \* per task: its call in progress on the auth manager
    last,           \* the call on the auth manager that completed last
    retry,          \* a call of retryWithBackoff(fn, maxRetries, baseDelay)
    parse,          \* an application of parseRedditError(error)
    tool,           \* per caller: its tool call in the dispatcher
    sse             \* the SSE endpoints: sessions, activeTransports, requests

limiterVars == <<tokens, elapsed, queue, timers, pc, ev, burst, window>>

authVars == <<accessToken, refreshToken, tokenExpiry, hasCredentials, now,
              issued, call, last>>

utilVars == <<retry, parse, tool, sse>>

vars == <<tokens, elapsed, queue, timers, pc, ev, burst, window, accessToken, refreshToken,
          tokenExpiry, hasCredentials, now, issued, call, last, retry, parse,
          tool, sse>>

----------------------------------------------------------------------------
(* Bounds of the model *)

RequestsPerMinute == 2      \* the capacity handed to the constructor
NumCallers == 3             \* callers that may have an acquire() outstanding
MaxTimers == 3              \* pending timers the model lets accumulate
TicksPerToken == 3          \* clock steps within the time one token takes to refill
NumTasks == 2               \* tasks that call the auth manager concurrently
MaxIssued == 2              \* access tokens the authorization server issues
MaxAuthTicks == 2           \* clock steps the auth manager is followed for
TicksPerMargin == 1         \* clock steps within the 60 s safety margin
MaxRetries == 3             \* the largest maxRetries handed to retryWithBackoff
MaxHeaderLen == 2           \* characters of a retry-after header
NumSessions == 2            \* connections made to GET /sse

(* Program constants *)

MsPerMinute == 60000

SafetyMarginMs == 60000

\* a character of a header that is no digit, and the number that is no number
NonDigit == 10

NaN == 0 - 1

\* redditConfig.maxRetries as the dispatcher is run with
ConfigMaxRetries == 1

Callers == 1..NumCallers

\* the session ids the SSE transports generate
SessionIds == 1..NumSessions

\* the caller that is a tool call, handling one request, and the other
\* users of the limiter
ToolCalls == {1}

OtherCallers == {2}

Tasks == 1..NumTasks

\* the step of the auth manager's clock, in ms
AuthTickMs == SafetyMarginMs \div TicksPerMargin

\* expires_in of a token response, in seconds
ExpiresIn == {120}

\* HTTP statuses of a failed request
FailStatus == {401, 503}

\* response statuses of a transport failure; 0 is a failure without response
Statuses == {0, 400, 401, 403, 404, 418, 429, 500, 502, 503, 504}

\* the characters retry-after headers are made of, and the headers
HeaderChars == {0, 1, 5, NonDigit}

Headers == UNION {[1..n -> HeaderChars] : n \in 0..MaxHeaderLen}

\* the baseDelay arguments of retryWithBackoff, in ms
BaseDelays == {100, 1000}

\* values of Math.random() * 1000
Jitters == {0, 500, 999}

\* the refresh token of the configuration, and the one a response may carry
ConfigRefreshToken == 1

RotatedRefreshToken == 2

\* the step by which the clock is observed to move, in ms
TickMs == MsPerMinute \div (RequestsPerMinute * TicksPerToken)

\* the longest interval observed, in clock steps
MaxWindowTicks == 7

----------------------------------------------------------------------------
(* Arithmetic helpers *)

Min(a, b) == IF a <= b THEN a ELSE b

Max(a, b) == IF a >= b THEN a ELSE b

\* Math.ceil(a / b) for a >= 0, b > 0
Ceil(a, b) == (a + b - 1) \div b

Range(s) == {s[i] : i \in 1..Len(s)}

----------------------------------------------------------------------------
(* RateLimiter *)

OneToken == MsPerMinute

maxTokens == RequestsPerMinute * OneToken

refillRate == RequestsPerMinute

\* refillTokens(): the token count after adding elapsed * refillRate
RefillTokens(tok, el) == Min(maxTokens, tok + el * refillRate)

HasTokenAnyFraction(tok) == tok > 0

\* the tests `this.tokens >= 1` of acquire() and processQueue()
HasToken(tok) == tok >= OneToken

\* the delay scheduleRefill() hands to setTimeout
TimeToNextToken(tok) == Ceil(OneToken - tok, refillRate)

\* setTimeout: one more pending timer, due in d ms
RECURSIVE SetTimeout(_, _)
SetTimeout(ts, d) ==
    IF ts = <<>> THEN <<d>>
    ELSE IF d <= Head(ts) THEN <<d>> \o ts
    ELSE <<Head(ts)>> \o SetTimeout(Tail(ts), d)

\* scheduleRefill(): nothing when the queue is empty, else one more timer
ScheduleRefillBeforePush(ts, q, tok) ==
    IF Len(q) <= 1 THEN ts ELSE SetTimeout(ts, TimeToNextToken(tok))

ScheduleRefill(ts, q, tok) ==
    IF q = <<>> THEN ts ELSE SetTimeout(ts, TimeToNextToken(tok))

RECURSIVE ProcessLoopNoResolve(_, _, _)
ProcessLoopNoResolve(tok, q, done) ==
    IF q # <<>> /\ HasToken(tok)
    THEN ProcessLoopNoResolve(tok - OneToken, Tail(q), done)
    ELSE [tokens |-> tok, queue |-> q, resolved |-> done]

RECURSIVE ProcessLoopFromBack(_, _, _)
ProcessLoopFromBack(tok, q, done) ==
    IF q # <<>> /\ HasToken(tok)
    THEN ProcessLoopFromBack(tok - OneToken, SubSeq(q, 1, Len(q) - 1),
                             Append(done, q[Len(q)]))
    ELSE [tokens |-> tok, queue |-> q, resolved |-> done]

\* the while loop of processQueue(): shift and resolve while a token is there
RECURSIVE ProcessLoop(_, _, _)
ProcessLoop(tok, q, done) ==
    IF q # <<>> /\ HasToken(tok)
    THEN ProcessLoop(tok - OneToken, Tail(q), Append(done, Head(q)))
    ELSE [tokens |-> tok, queue |-> q, resolved |-> done]

StatusRoundsUp(tok) ==
    [remaining |-> Ceil(tok, OneToken), total |-> maxTokens \div OneToken]

\* what getStatus() returns: Math.floor(tokens) and maxTokens
Status(tok) ==
    [remaining |-> tok \div OneToken, total |-> maxTokens \div OneToken]

NoEvent == [op |-> "none", who |-> 0, resolved |-> <<>>, rejected |-> <<>>,
            error |-> "", delay |-> 0, status |-> Status(0)]

Event(op, who, resolved, rejected, error, delay) ==
    [op |-> op, who |-> who, resolved |-> resolved, rejected |-> rejected,
     error |-> error, delay |-> delay, status |-> Status(0)]

\* no interval is observed yet
NoWindow == [st |-> "idle", time |-> 0, grants |-> 0]

\* the interval under observation after ms more ms in which granted calls
\* of acquire() were granted
Observe(w, granted, ms) ==
    IF w.st # "open" THEN w
    ELSE IF w.time + ms > MaxWindowTicks * TickMs THEN [w EXCEPT !.st = "over"]
    ELSE [w EXCEPT !.time = @ + ms, !.grants = @ + granted]

InitLimiterEmpty ==
    /\ tokens = 0
    /\ elapsed = 0
    /\ queue = <<>>
    /\ timers = <<>>
    /\ pc = [c \in Callers |-> "idle"]
    /\ ev = NoEvent
    /\ burst = 0
    /\ window = NoWindow

\* the limiter after its constructor: a full bucket, nobody waiting
InitLimiter ==
    /\ tokens = maxTokens
    /\ elapsed = 0
    /\ queue = <<>>
    /\ timers = <<>>
    /\ pc = [c \in Callers |-> "idle"]
    /\ ev = NoEvent
    /\ burst = 0
    /\ window = NoWindow

----------------------------------------------------------------------------
(* The error handler: parseRedditError and retryWithBackoff *)

\* an error value.  name is its class: "AxiosError", one of the classes of the
\* error handler, "Error" for any other Error, "NonError" for a thrown value
\* that is no Error.  statusCode is response.status of an AxiosError (0: no
\* response) or the statusCode of a RedditAPIError (0: undefined); header is
\* the retry-after header of the response (<<>>: absent)
ErrorValue(name, statusCode, errorCode, retryAfter, header) ==
    [name |-> name, statusCode |-> statusCode, errorCode |-> errorCode,
     retryAfter |-> retryAfter, header |-> header]

\* new RedditAPIError(message, statusCode, errorCode)
RedditAPIError(statusCode, errorCode) ==
    ErrorValue("RedditAPIError", statusCode, errorCode, 0, <<>>)

\* new RateLimitError(message, retryAfter)
RateLimitError(retryAfter) ==
    ErrorValue("RateLimitError", 429, "RATE_LIMIT_EXCEEDED", retryAfter, <<>>)

\* new AuthenticationError(message)
AuthenticationError ==
    ErrorValue("AuthenticationError", 401, "AUTHENTICATION_FAILED", 0, <<>>)

\* new NotFoundError(message)
NotFoundError == ErrorValue("NotFoundError", 404, "NOT_FOUND", 0, <<>>)

\* new ForbiddenError(message)
ForbiddenError == ErrorValue("ForbiddenError", 403, "FORBIDDEN", 0, <<>>)

\* an AxiosError with the status and the retry-after header of its response
AxiosError(status, header) == ErrorValue("AxiosError", status, "", 0, header)

\* new Error(message), and a thrown value that is no Error
PlainError == ErrorValue("Error", 0, "", 0, <<>>)

NonError == ErrorValue("NonError", 0, "", 0, <<>>)

\* the digits of a prefix of the string s, read as a decimal number
RECURSIVE DigitsValue(_, _)
DigitsValue(s, acc) ==
    IF s = <<>> \/ Head(s) = NonDigit THEN acc
    ELSE DigitsValue(Tail(s), 10 * acc + Head(s))

\* parseInt(s, 10) of a string without sign or leading blanks: the number its
\* leading digits denote, NaN when it does not start with a digit
ParseInt(s) ==
    IF s = <<>> \/ Head(s) = NonDigit THEN NaN ELSE DigitsValue(s, 0)

RetryAfterDefault30(header) ==
    ParseInt(IF header = <<>> THEN <<3, 0>> ELSE header)

\* parseInt(headers['retry-after'] || '60', 10)
RetryAfter(header) ==
    ParseInt(IF header = <<>> THEN <<6, 0>> ELSE header)

\* parseRedditError(error)
ParseRedditError(error) ==
    IF error.name = "AxiosError"
    THEN LET status == error.statusCode IN
         IF status = 401 THEN AuthenticationError
         ELSE IF status = 403 THEN ForbiddenError
         ELSE IF status = 404 THEN NotFoundError
         ELSE IF status = 429 THEN RateLimitError(RetryAfter(error.header))
         ELSE IF status \in {500, 502, 503, 504}
         THEN RedditAPIError(status, "SERVICE_UNAVAILABLE")
         ELSE RedditAPIError(status, "UNKNOWN_ERROR")
    ELSE RedditAPIError(0, "")

\* no error
NoError == ErrorValue("none", 0, "", 0, <<>>)

\* the three instanceof tests of retryWithBackoff: errors that are rethrown
IsNonRetryableNoNotFound(error) ==
    error.name \in {"AuthenticationError", "ForbiddenError"}

IsNonRetryable(error) ==
    error.name \in {"AuthenticationError", "ForbiddenError", "NotFoundError"}

\* error instanceof Error ? error : new Error(String(error))
LastError(error) == IF error.name = "NonError" THEN PlainError ELSE error

\* seconds to milliseconds, as the multiplication of JavaScript numbers
Times1000(x) == IF x = NaN THEN NaN ELSE x * 1000

BackoffDelayTimesAttempt(baseDelay, attempt, jitter) ==
    baseDelay * 2 * attempt + jitter

\* baseDelay * Math.pow(2, attempt) + Math.random() * 1000
BackoffDelay(baseDelay, attempt, jitter) == baseDelay * 2 ^ attempt + jitter

\* the time the catch block sleeps after a retryable failure
SleepTime(error, delay) ==
    IF error.name = "RateLimitError" THEN Times1000(error.retryAfter) ELSE delay

LoopTestExclusive(attempt, maxRetries) == attempt < maxRetries

\* the test of the for loop
LoopTest(attempt, maxRetries) == attempt <= maxRetries

\* a call of retryWithBackoff: where it is, the number of invocations of fn,
\* what fn threw last, the time of the sleep in progress or last done, the
\* number of sleeps, and the value returned or the error raised
NewRetry(maxRetries, baseDelay) ==
    [pc |-> "idle", maxRetries |-> maxRetries, baseDelay |-> baseDelay,
     attempt |-> 0, calls |-> 0, thrown |-> NoError, lastError |-> NoError,
     sleep |-> 0, slept |-> 0, value |-> 0, raised |-> NoError]

\* an application of parseRedditError: its argument and its result
NewParse(error) ==
    [input |-> error, output |-> NoError, applied |-> FALSE,
     outer |-> NoError, reapplied |-> FALSE]

\* the result a tool call is answered with: the isError flag, the stage the
\* error comes from and the error whose message the text carries
\* retryWithBackoff has not been called
NoRetry == [pc |-> "none"]

NoToolResult == [done |-> FALSE, isError |-> FALSE, stage |-> "", error |-> NoError]

Payload == [done |-> TRUE, isError |-> FALSE, stage |-> "", error |-> NoError]

ErrorResult(stage, error) ==
    [done |-> TRUE, isError |-> TRUE, stage |-> stage, error |-> error]

\* a tool call of the dispatcher: where its handler is, its tool name, its
\* retryWithBackoff, the requests it has sent to the authorization server,
\* whether it holds an authenticated client and has sent its API request,
\* whether an exception left the handler, and its result
NoTool ==
    [stage |-> "idle", name |-> "", retry |-> NoRetry,
     authSent |-> 0, client |-> FALSE, apiSent |-> FALSE, escaped |-> FALSE,
     result |-> NoToolResult]

\* a connection to GET /sse: the state of server.connect for it, whether its
\* response stream has closed, whether the close listener is registered
NoSession == [conn |-> "none", closed |-> FALSE, listener |-> FALSE]

\* a POST /message: its sessionId (0: none), the keys of activeTransports when
\* it arrived, the session whose transport got it (0: none) and the status
\* the handler answered with (0: the answer is the transport's)
NoPost == [sessionId |-> 0, active |-> {}, delivered |-> 0, status |-> 0]

\* no connection yet, activeTransports empty, no request
NoSse ==
    [session |-> [i \in SessionIds |-> NoSession], active |-> {}, post |-> NoPost]

\* no tool call and no SSE connection
InitServer ==
    /\ tool = [c \in ToolCalls |-> NoTool]
    /\ sse = NoSse

\* neither function is called
InitUtil ==
    /\ retry = NewRetry(MaxRetries, 1000)
    /\ parse = NewParse(NoError)
    /\ InitServer

\* what a transport failure is: an AxiosError, another Error, another value
TransportFailures ==
    {AxiosError(s, h) : s \in Statuses, h \in Headers} \cup {PlainError, NonError}

\* what fn may throw: a classified transport failure, another Error, a value
FnThrows ==
    {ParseRedditError(e) : e \in TransportFailures} \cup {PlainError, NonError}

\* the body of the for loop up to its await: fn is invoked if the loop test
\* holds, else the loop is left and lastError is thrown
EnterLoop(r) ==
    IF LoopTest(r.attempt, r.maxRetries)
    THEN [r EXCEPT !.pc = "calling", !.calls = @ + 1]
    ELSE [r EXCEPT !.pc = "thrown",
                   !.raised = IF r.lastError = NoError THEN PlainError
                              ELSE r.lastError]

\* the catch block, entered with what fn threw
Catch(r, error, jitter) ==
    LET c == [r EXCEPT !.thrown = error, !.lastError = LastError(error)] IN
    IF IsNonRetryable(error)
    THEN [c EXCEPT !.pc = "thrown", !.raised = error]
    ELSE IF c.attempt = c.maxRetries
    THEN [c EXCEPT !.pc = "thrown", !.raised = c.lastError]
    ELSE [c EXCEPT !.pc = "sleeping", !.slept = @ + 1,
                   !.sleep = SleepTime(error,
                                 BackoffDelay(c.baseDelay, c.attempt, jitter))]

----------------------------------------------------------------------------
(* RedditAuth *)

\* new AuthenticationError(...) thrown before any request is made
ConfigError == AuthenticationError

NoResult == [kind |-> "none", token |-> 0, by |-> "", error |-> NoError]

Returned(tok) == [kind |-> "ok", token |-> tok, by |-> "", error |-> NoError]

Thrown(by, err) == [kind |-> "err", token |-> 0, by |-> by, error |-> err]

\* one attempted method: whether it sent its request, and the status of the
\* response (0 while none has arrived or none was sent)
Attempt(m, sent, status) == [m |-> m, sent |-> sent, status |-> status]

\* a call on the auth manager.  cache and hadRefresh say what the call found
\* when it was made: the state of the cached token, a stored refresh token.
\* cacheTok and left are the cached token and tokenExpiry - Date.now() of a
\* call that was answered from the cache.  submitted is the token
\* revokeToken() sends; response, expiresIn and carried are the access token,
\* the expires_in and the refresh token (0: none) of a token response; answer
\* is what isAuthenticated() returned.
IdleCall ==
    [op |-> "none", pc |-> "idle", cache |-> "none",
     hadRefresh |-> FALSE, cacheTok |-> 0, left |-> 0, submitted |-> 0,
     log |-> <<>>, response |-> 0, expiresIn |-> 0, carried |-> 0,
     answer |-> "none", result |-> NoResult]

\* the cached token as a caller finds it at time t: none cached, past its
\* expiry, within the last 60 s before its expiry, or earlier than that
CacheState(tok, expiry, t) ==
    IF tok = 0 THEN "none"
    ELSE IF expiry - t <= 0 THEN "expired"
    ELSE IF expiry - t <= 60000 THEN "margin"
    ELSE "fresh"

CacheValidNoMargin(tok, expiry, t) == tok # 0 /\ t < expiry

CacheValidInverted(tok, expiry, t) == tok # 0 /\ t > expiry - SafetyMarginMs

\* the test of getAccessToken(): a token is cached and is not within the
\* safety margin of its expiry
CacheValid(tok, expiry, t) == tok # 0 /\ t < expiry - SafetyMarginMs

IsAuthenticatedWithMargin(tok, expiry, t) ==
    tok # 0 /\ t < expiry - SafetyMarginMs

\* isAuthenticated()
IsAuthenticated(tok, expiry, t) == tok # 0 /\ t < expiry

HandleAuthResponseAlwaysReplaces(data, t, rt) ==
    [accessToken |-> data.access_token,
     tokenExpiry |-> t + data.expires_in * 1000,
     refreshToken |-> data.refresh_token,
     ret |-> data.access_token]

HandleAuthResponseFirstWins(data, t, rt) ==
    [accessToken |-> IF accessToken # 0 THEN accessToken ELSE data.access_token,
     tokenExpiry |-> IF accessToken # 0 THEN tokenExpiry
                     ELSE t + data.expires_in * 1000,
     refreshToken |-> IF data.refresh_token # 0 THEN data.refresh_token ELSE rt,
     ret |-> data.access_token]

\* handleAuthResponse(data): the new fields and the value returned
HandleAuthResponse(data, t, rt) ==
    [accessToken |-> data.access_token,
     tokenExpiry |-> t + data.expires_in * 1000,
     refreshToken |-> IF data.refresh_token # 0 THEN data.refresh_token ELSE rt,
     ret |-> data.access_token]

\* authenticateWithPassword() up to its request: without username or password
\* it throws at once, else the password grant is sent
StartPassword(c, creds) ==
    IF ~creds
    THEN [c EXCEPT !.pc = "done",
                   !.log = Append(@, Attempt("password", FALSE, 0)),
                   !.result = Thrown("password", ConfigError)]
    ELSE [c EXCEPT !.pc = "password",
                   !.log = Append(@, Attempt("password", TRUE, 0))]

StartRefreshNoCheck(c, rt) ==
    [c EXCEPT !.pc = "refresh",
              !.log = Append(@, Attempt("refresh", TRUE, 0))]

\* authenticateWithRefreshToken() up to its request
StartRefresh(c, rt) ==
    IF rt = 0
    THEN [c EXCEPT !.pc = "done",
                   !.log = Append(@, Attempt("refresh", FALSE, 0)),
                   !.result = Thrown("refresh", ConfigError)]
    ELSE [c EXCEPT !.pc = "refresh",
                   !.log = Append(@, Attempt("refresh", TRUE, 0))]

StartAuthenticationPasswordFirst(c, rt, creds) == StartPassword(c, creds)

\* getAccessToken() after its cache test failed: the refresh grant when a
\* refresh token is stored, else password authentication
StartAuthentication(c, rt, creds) ==
    IF rt # 0 THEN StartRefresh(c, rt) ELSE StartPassword(c, creds)

\* getAccessToken() up to its first await
StartGetAccessToken(c, tok, expiry, t, rt, creds) ==
    IF CacheValid(tok, expiry, t)
    THEN [c EXCEPT !.pc = "done", !.cacheTok = tok, !.left = expiry - t,
                   !.result = Returned(tok)]
    ELSE StartAuthentication(c, rt, creds)

OnRefreshFailureRethrow(c, err, creds) ==
    [c EXCEPT !.pc = "done", !.result = Thrown("refresh", err)]

\* the catch block of getAccessToken(): the refresh failure is logged and
\* password authentication follows
OnRefreshFailure(c, err, creds) == StartPassword(c, creds)

\* the catch block of authenticateWithRefreshToken(): the classified error
OnRefreshGrantFailure(c, err) ==
    [c EXCEPT !.pc = "done", !.result = Thrown("refresh", err)]

\* the catch block of authenticateWithPassword(): the classified error
OnPasswordFailure(c, err) ==
    [c EXCEPT !.pc = "done", !.result = Thrown("password", err)]

\* revokeToken() up to its await: nothing without a cached token
StartRevoke(c, tok) ==
    IF tok = 0
    THEN [c EXCEPT !.pc = "done", !.result = Returned(0)]
    ELSE [c EXCEPT !.pc = "revoke", !.submitted = tok,
                   !.log = <<Attempt("revoke", TRUE, 0)>>]

\* revokeToken() after its request: the two statements after the await run
\* when the request succeeded, the catch block when it failed
AfterRevoke(status, tok, expiry) ==
    IF status = 200
    THEN [accessToken |-> 0, tokenExpiry |-> 0, result |-> Returned(0)]
    ELSE [accessToken |-> tok, tokenExpiry |-> expiry,
          result |-> Thrown("revoke", ParseRedditError(AxiosError(status, <<>>)))]

\* the response recorded in the attempt that was waiting for it
Answered(c, status) == [c EXCEPT !.log[Len(c.log)].status = status]

AuthFresh ==
    /\ accessToken = 0
    /\ refreshToken = 0
    /\ tokenExpiry = 0
    /\ hasCredentials = TRUE
    /\ now = 0
    /\ issued = 0
    /\ call = [p \in Tasks |-> IdleCall]
    /\ last = IdleCall

InitAuth ==
    /\ accessToken = 0
    /\ refreshToken \in {0, ConfigRefreshToken}
    /\ tokenExpiry = 0
    /\ hasCredentials \in BOOLEAN
    /\ now = 0
    /\ issued = 0
    /\ call = [p \in Tasks |-> IdleCall]
    /\ last = IdleCall

\* the call c of task p goes on: a call that has returned or thrown becomes
\* the last completed call and the task is free again
Settle(p, c) ==
    /\ call' = [call EXCEPT ![p] = IF c.pc = "done" THEN IdleCall ELSE c]
    /\ last' = IF c.pc = "done" THEN c ELSE last

NewCall(op) ==
    [IdleCall EXCEPT !.op = op,
                     !.cache = CacheState(accessToken, tokenExpiry, now),
                     !.hadRefresh = (refreshToken # 0)]

\* task p calls getAccessToken(); it runs up to its first await
GetAccessToken(p) ==
    /\ call[p].pc = "idle"
    /\ Settle(p, StartGetAccessToken(NewCall("getAccessToken"), accessToken,
                                     tokenExpiry, now, refreshToken,
                                     hasCredentials))
    /\ UNCHANGED <<accessToken, refreshToken, tokenExpiry, hasCredentials, now, issued>>
    /\ UNCHANGED <<limiterVars, utilVars>>

\* the authorization server answers the grant of task p with a token: what
\* the auth manager does
GrantSucceedsBody(p) ==
    /\ call[p].pc \in {"refresh", "password"}
    /\ issued < MaxIssued
    /\ \E e \in ExpiresIn, r \in {0, RotatedRefreshToken} :
          LET data == [access_token |-> issued + 1, expires_in |-> e,
                       refresh_token |-> r]
              h == HandleAuthResponse(data, now, refreshToken)
          IN /\ accessToken' = h.accessToken
             /\ tokenExpiry' = h.tokenExpiry
             /\ refreshToken' = h.refreshToken
             /\ Settle(p, [Answered(call[p], 200)
                             EXCEPT !.pc = "done", !.response = data.access_token,
                                    !.expiresIn = data.expires_in,
                                    !.carried = data.refresh_token,
                                    !.result = Returned(h.ret)])
    /\ issued' = issued + 1
    /\ UNCHANGED <<hasCredentials, now>>

\* the authorization server answers the grant of task p with a token
GrantSucceeds(p) == GrantSucceedsBody(p) /\ UNCHANGED <<limiterVars, utilVars>>

\* the grant of task p fails; within getAccessToken() a failed refresh falls
\* back to the password: what the auth manager does
GrantFailsBody(p) ==
    /\ call[p].pc \in {"refresh", "password"}
    /\ \E s \in FailStatus :
          LET c == Answered(call[p], s)
              err == ParseRedditError(AxiosError(s, <<>>))
          IN Settle(p, IF call[p].pc = "password"
                       THEN OnPasswordFailure(c, err)
                       ELSE IF call[p].op = "getAccessToken"
                       THEN OnRefreshFailure(c, err, hasCredentials)
                       ELSE OnRefreshGrantFailure(c, err))
    /\ UNCHANGED <<accessToken, refreshToken, tokenExpiry, hasCredentials, now, issued>>

GrantFailsClearsCache(p) ==
    /\ call[p].pc \in {"refresh", "password"}
    /\ \E s \in FailStatus :
          Settle(p, OnPasswordFailure(Answered(call[p], s),
                                      ParseRedditError(AxiosError(s, <<>>))))
    /\ accessToken' = 0
    /\ tokenExpiry' = 0
    /\ UNCHANGED <<refreshToken, hasCredentials, now, issued>>
    /\ UNCHANGED <<limiterVars, utilVars>>

\* the grant of task p fails
GrantFails(p) == GrantFailsBody(p) /\ UNCHANGED <<limiterVars, utilVars>>

\* task p calls authenticateWithPassword(); it runs up to its await, or throws
AuthenticateWithPassword(p) ==
    /\ call[p].pc = "idle"
    /\ Settle(p, StartPassword(NewCall("authenticateWithPassword"),
                               hasCredentials))
    /\ UNCHANGED <<accessToken, refreshToken, tokenExpiry, hasCredentials, now, issued>>
    /\ UNCHANGED <<limiterVars, utilVars>>

\* task p calls authenticateWithRefreshToken(); it runs up to its await, or
\* throws
AuthenticateWithRefreshToken(p) ==
    /\ call[p].pc = "idle"
    /\ Settle(p, StartRefresh(NewCall("authenticateWithRefreshToken"),
                              refreshToken))
    /\ UNCHANGED <<accessToken, refreshToken, tokenExpiry, hasCredentials, now, issued>>
    /\ UNCHANGED <<limiterVars, utilVars>>

\* task p calls isAuthenticated()
CheckAuthenticated(p) ==
    /\ call[p].pc = "idle"
    /\ Settle(p, [NewCall("isAuthenticated")
                    EXCEPT !.pc = "done",
                           !.answer = IF IsAuthenticated(accessToken,
                                                         tokenExpiry, now)
                                      THEN "true" ELSE "false"])
    /\ UNCHANGED <<accessToken, refreshToken, tokenExpiry, hasCredentials, now, issued>>
    /\ UNCHANGED <<limiterVars, utilVars>>

\* task p calls revokeToken(); it runs up to its await, or returns at once
RevokeToken(p) ==
    /\ call[p].pc = "idle"
    /\ Settle(p, StartRevoke(NewCall("revokeToken"), accessToken))
    /\ UNCHANGED <<accessToken, refreshToken, tokenExpiry, hasCredentials, now, issued>>
    /\ UNCHANGED <<limiterVars, utilVars>>

\* the revocation endpoint answers task p, with success or with a failure
RevokeAnswered(p) ==
    /\ call[p].pc = "revoke"
    /\ \E s \in {200} \cup FailStatus :
          LET r == AfterRevoke(s, accessToken, tokenExpiry)
          IN /\ accessToken' = r.accessToken
             /\ tokenExpiry' = r.tokenExpiry
             /\ Settle(p, [Answered(call[p], s)
                             EXCEPT !.pc = "done", !.result = r.result])
    /\ UNCHANGED <<refreshToken, hasCredentials, now, issued>>
    /\ UNCHANGED <<limiterVars, utilVars>>

\* the auth manager's clock moves on
TickAuth ==
    /\ now < MaxAuthTicks * AuthTickMs
    /\ now' = now + AuthTickMs
    /\ UNCHANGED <<accessToken, refreshToken, tokenExpiry, hasCredentials,
                   issued, call, last>>
    /\ UNCHANGED <<limiterVars, utilVars>>

\* the tasks that call getAccessToken() and revokeToken()
AuthCallers == {1, 2}

NextAuth ==
    \/ \E p \in AuthCallers : GetAccessToken(p)
    \/ \E p \in AuthCallers : GrantSucceeds(p)
    \/ \E p \in AuthCallers : GrantFails(p)
    \/ \E p \in AuthCallers : RevokeToken(p)
    \/ \E p \in AuthCallers : RevokeAnswered(p)
    \/ TickAuth

\* the auth manager alone, next to a limiter nobody calls
InitAuthOnly == InitLimiter /\ InitAuth /\ InitUtil

SpecAuth == InitAuthOnly /\ [][NextAuth]_vars

\* the tasks that call the methods of the auth manager directly
MethodCallers == {1, 2}

\* the methods of the auth manager, called directly
NextAuthMethods ==
    \/ \E p \in MethodCallers : AuthenticateWithPassword(p)
    \/ \E p \in MethodCallers : AuthenticateWithRefreshToken(p)
    \/ \E p \in MethodCallers : CheckAuthenticated(p)
    \/ \E p \in MethodCallers : GrantSucceeds(p)
    \/ \E p \in MethodCallers : GrantFails(p)
    \/ \E p \in MethodCallers : RevokeToken(p)
    \/ \E p \in MethodCallers : RevokeAnswered(p)
    \/ TickAuth

SpecAuthMethods == InitAuthOnly /\ [][NextAuthMethods]_vars

----------------------------------------------------------------------------
(* The error handler in operation *)

\* retryWithBackoff(fn, maxRetries, baseDelay) is called
RetryWithBackoff ==
    /\ retry.pc = "idle"
    /\ retry' = EnterLoop(retry)
    /\ UNCHANGED <<limiterVars, authVars, parse, tool, sse>>

\* the invocation of fn in progress resolves
FnReturns ==
    /\ retry.pc = "calling"
    /\ retry' = [retry EXCEPT !.pc = "returned", !.value = 1]
    /\ UNCHANGED <<limiterVars, authVars, parse, tool, sse>>

\* the invocation of fn in progress rejects
FnRejects ==
    /\ retry.pc = "calling"
    /\ \E error \in FnThrows, jitter \in Jitters :
          retry' = Catch(retry, error, jitter)
    /\ UNCHANGED <<limiterVars, authVars, parse, tool, sse>>

\* the sleep ends: attempt++ and the next turn of the loop
SleepDone ==
    /\ retry.pc = "sleeping"
    /\ retry' = EnterLoop([retry EXCEPT !.attempt = @ + 1])
    /\ UNCHANGED <<limiterVars, authVars, parse, tool, sse>>

NextRetry ==
    \/ RetryWithBackoff
    \/ FnReturns
    \/ FnRejects
    \/ SleepDone

\* one call of retryWithBackoff, for each maxRetries and baseDelay
InitRetry ==
    /\ InitLimiter
    /\ AuthFresh
    /\ parse = NewParse(NoError)
    /\ InitServer
    /\ retry \in {NewRetry(m, b) : m \in 0..MaxRetries, b \in BaseDelays}

SpecRetry == InitRetry /\ [][NextRetry]_vars

\* parseRedditError(error) is applied to the transport failure
ParseError ==
    /\ ~parse.applied
    /\ parse' = [parse EXCEPT !.output = ParseRedditError(parse.input),
                              !.applied = TRUE]
    /\ UNCHANGED <<limiterVars, authVars, retry, tool, sse>>

\* the catch block of an enclosing call applies parseRedditError to the
\* error the inner call has thrown, which parseRedditError produced
ParseAgain ==
    /\ parse.applied
    /\ ~parse.reapplied
    /\ parse' = [parse EXCEPT !.outer = ParseRedditError(parse.output),
                              !.reapplied = TRUE]
    /\ UNCHANGED <<limiterVars, authVars, retry, tool, sse>>

NextParse ==
    \/ ParseError
    \/ ParseAgain

\* parseRedditError applied to each transport failure, and to its own result
InitParse ==
    /\ InitLimiter
    /\ AuthFresh
    /\ retry = NewRetry(MaxRetries, 1000)
    /\ InitServer
    /\ parse \in {NewParse(e) : e \in TransportFailures}

SpecParse == InitParse /\ [][NextParse]_vars

----------------------------------------------------------------------------
(* RateLimiter operations *)
\* acquire() by caller c, whose previous promise (if any) has settled: what
\* the limiter does
AcquireBody(c) ==
    /\ pc[c] # "waiting"
    /\ LET tok == RefillTokens(tokens, elapsed) IN
       IF HasToken(tok)
       THEN /\ tokens' = tok - OneToken
            /\ pc' = [pc EXCEPT ![c] = "granted"]
            /\ ev' = Event("acquire", c, <<c>>, <<>>, "", 0)
            /\ UNCHANGED <<queue, timers>>
       ELSE /\ Len(timers) < MaxTimers
            /\ tokens' = tok
            /\ queue' = Append(queue, c)
            /\ timers' = ScheduleRefill(timers, queue', tok)
            /\ pc' = [pc EXCEPT ![c] = "waiting"]
            /\ ev' = Event("acquire", c, <<>>, <<>>, "", TimeToNextToken(tok))
    /\ elapsed' = 0
    /\ burst' = IF burst >= 0 THEN burst + 1 ELSE burst
    /\ window' = Observe(window, Len(ev'.resolved), 0)

\* acquire() by caller c
Acquire(c) == AcquireBody(c) /\ UNCHANGED <<authVars, utilVars>>

\* a due timer runs its callback: refillTokens(); processQueue()
TimerFire ==
    /\ timers # <<>>
    /\ Head(timers) = 0
    /\ UNCHANGED <<authVars, utilVars>>
    /\ LET tok == RefillTokens(tokens, elapsed)
           r == ProcessLoop(tok, queue, <<>>)
       IN /\ tokens' = r.tokens
          /\ queue' = r.queue
          /\ timers' = ScheduleRefill(Tail(timers), r.queue, r.tokens)
          /\ pc' = [c \in Callers |->
                      IF c \in Range(r.resolved) THEN "granted" ELSE pc[c]]
          /\ ev' = Event("timer", 0, r.resolved, <<>>, "",
                         IF r.queue = <<>> THEN 0 ELSE TimeToNextToken(r.tokens))
    /\ elapsed' = 0
    /\ window' = Observe(window, Len(ev'.resolved), 0)
    /\ UNCHANGED burst

\* getStatus(): refillTokens(), then report floor(tokens) and maxTokens
GetStatus ==
    /\ tokens' = RefillTokens(tokens, elapsed)
    /\ elapsed' = 0
    /\ ev' = [Event("getStatus", 0, <<>>, <<>>, "", 0)
                EXCEPT !.status = Status(tokens')]
    /\ UNCHANGED <<queue, timers, pc, burst, window>>
    /\ UNCHANGED <<authVars, utilVars>>

ResetKeepsTokens ==
    /\ tokens' = RefillTokens(tokens, elapsed)
    /\ elapsed' = 0
    /\ queue' = <<>>
    /\ pc' = [c \in Callers |-> IF c \in Range(queue) THEN "rejected" ELSE pc[c]]
    /\ ev' = Event("reset", 0, <<>>, queue,
                   IF queue = <<>> THEN "" ELSE "Rate limiter reset", 0)
    /\ burst' = 0 - 1
    /\ UNCHANGED <<timers, window>>
    /\ UNCHANGED <<authVars, utilVars>>

\* reset(): full bucket, every queued waiter rejected
Reset ==
    /\ tokens' = maxTokens
    /\ elapsed' = 0
    /\ queue' = <<>>
    /\ pc' = [c \in Callers |-> IF c \in Range(queue) THEN "rejected" ELSE pc[c]]
    /\ ev' = Event("reset", 0, <<>>, queue,
                   IF queue = <<>> THEN "" ELSE "Rate limiter reset", 0)
    /\ burst' = 0 - 1
    /\ UNCHANGED <<timers, window>>
    /\ UNCHANGED <<authVars, utilVars>>

\* the clock moves on by ms; timers that are due may still be pending
TickBy(ms) ==
    /\ elapsed' = Min(MsPerMinute, elapsed + ms)
    /\ timers' = [i \in 1..Len(timers) |-> Max(0, timers[i] - ms)]
    /\ burst' = 0 - 1
    /\ window' = Observe(window, 0, ms)
    /\ UNCHANGED <<tokens, queue, pc, ev>>
    /\ UNCHANGED <<authVars, utilVars>>

\* the clock moves on by TickMs
Tick == TickBy(TickMs)

\* the clock moves on by the time one token takes to refill
TickToken == TickBy(TickMs * TicksPerToken)

\* the callers of acquire()
LimiterCallers == {1, 2, 3}

NextLimiter ==
    \/ \E c \in LimiterCallers : Acquire(c)
    \/ TimerFire
    \/ GetStatus
    \/ Reset
    \/ Tick

\* the limiter alone, next to an auth manager nobody calls
InitLimiterOnly == InitLimiter /\ AuthFresh /\ InitUtil

SpecLimiter == InitLimiterOnly /\ [][NextLimiter]_vars

\* the limiter without reset(), with the scheduling the event loop gives:
\* the clock keeps moving and a timer that is due is eventually run
NextLimiterNoReset ==
    \/ \E c \in LimiterCallers : Acquire(c)
    \/ TimerFire
    \/ GetStatus
    \/ Tick

SpecLimiterFair ==
    /\ InitLimiterOnly
    /\ [][NextLimiterNoReset]_vars
    /\ WF_vars(Tick)
    /\ WF_vars(TimerFire)

\* an interval of time begins, at any moment
OpenWindow ==
    /\ window.st = "idle"
    /\ window' = [NoWindow EXCEPT !.st = "open"]
    /\ UNCHANGED <<tokens, elapsed, queue, timers, pc, ev, burst>>
    /\ UNCHANGED <<authVars, utilVars>>

\* the callers of acquire() while an interval is observed
WindowCallers == {1, 2}

NextWindow ==
    \/ \E c \in WindowCallers : Acquire(c)
    \/ TimerFire
    \/ GetStatus
    \/ Tick
    \/ OpenWindow

\* the limiter without reset(), with one interval of time observed
SpecWindow == InitLimiterOnly /\ [][NextWindow]_vars

----------------------------------------------------------------------------
(* The tool-call dispatcher: the CallToolRequestSchema handler *)

\* the requests a call on the auth manager has sent
SentBy(c) == Cardinality({i \in 1..Len(c.log) : c.log[i].sent})

\* the error reset() rejects a waiter with, the error of the default branch
ResetError == PlainError

UnknownToolError == PlainError

FailEscapes(tl, stage, error) ==
    [tl EXCEPT !.stage = "done", !.escaped = TRUE]

\* an error thrown inside the try block: the catch block returns an isError
\* result with the error's message
Fail(tl, stage, error) ==
    [tl EXCEPT !.stage = "done", !.result = ErrorResult(stage, error)]

\* the switch on the tool name, entered with the authenticated client: the
\* tool sends its API request, the default branch throws
RunTool(tl) ==
    IF tl.name = "unknown" THEN Fail(tl, "tool", UnknownToolError)
    ELSE [tl EXCEPT !.stage = "api", !.apiSent = TRUE]

\* the handler goes on after createAuthenticatedClient() has run as far as
\* call c shows: it waits for the response, or it has the client and runs the
\* tool, or retryWithBackoff catches the error
AfterCall(tl, c, before, jitter) ==
    LET tl1 == [tl EXCEPT !.authSent = @ + SentBy(c) - before] IN
    IF c.pc # "done" THEN [tl1 EXCEPT !.stage = "auth"]
    ELSE IF c.result.kind = "ok"
    THEN RunTool([tl1 EXCEPT !.retry.pc = "returned", !.retry.value = 1,
                             !.client = TRUE])
    ELSE LET r == Catch(tl1.retry, c.result.error, jitter) IN
         IF r.pc = "thrown" THEN Fail([tl1 EXCEPT !.retry = r], "auth", r.raised)
         ELSE [tl1 EXCEPT !.retry = r, !.stage = "sleeping"]

\* the call of task t on the auth manager after a step of the auth manager
\* (primed variables): still in progress, or the one that completed last
CallAfter(t) == IF call'[t].pc = "idle" THEN last' ELSE call'[t]

\* a turn of the loop of retryWithBackoff: fn, that is
\* createAuthenticatedClient(), is invoked and runs up to its first await
Invoke(t, tl, jitter) ==
    LET r == EnterLoop(tl.retry) IN
    IF r.pc = "thrown"
    THEN /\ tool' = [tool EXCEPT ![t] = Fail([tl EXCEPT !.retry = r], "auth", r.raised)]
         /\ UNCHANGED <<call, last>>
    ELSE LET c == StartGetAccessToken(NewCall("getAccessToken"), accessToken,
                                      tokenExpiry, now, refreshToken,
                                      hasCredentials)
         IN /\ Settle(t, c)
            /\ tool' = [tool EXCEPT ![t] =
                           AfterCall([tl EXCEPT !.retry = r], c, 0, jitter)]

\* a tool call arrives: without arguments it is answered at once, else the
\* handler calls acquire() and awaits it
CallTool(t) ==
    /\ tool[t].stage = "idle"
    /\ \E name \in {"known", "unknown"}, args \in BOOLEAN :
          IF ~args
          THEN /\ tool' = [tool EXCEPT ![t] =
                             [@ EXCEPT !.stage = "done", !.name = name,
                                       !.result = ErrorResult("args", NoError)]]
               /\ UNCHANGED limiterVars
          ELSE /\ AcquireBody(t)
               /\ tool' = [tool EXCEPT ![t] =
                             [@ EXCEPT !.stage = "acquire", !.name = name]]
    /\ UNCHANGED <<authVars, retry, parse, sse>>

AcquireSettledIgnoresRejection(t) ==
    /\ tool[t].stage = "acquire"
    /\ pc[t] \in {"granted", "rejected"}
    /\ \E jitter \in Jitters :
               Invoke(t, [tool[t] EXCEPT !.retry =
                                     NewRetry(ConfigMaxRetries, 1000)], jitter)
    /\ UNCHANGED <<accessToken, refreshToken, tokenExpiry, hasCredentials, now, issued>>
    /\ UNCHANGED <<limiterVars, retry, parse, sse>>

\* the promise of acquire() has settled and the handler goes on: a rejection
\* is caught, after a grant retryWithBackoff invokes createAuthenticatedClient
AcquireSettled(t) ==
    /\ tool[t].stage = "acquire"
    /\ pc[t] \in {"granted", "rejected"}
    /\ IF pc[t] = "rejected"
       THEN /\ tool' = [tool EXCEPT ![t] = Fail(@, "acquire", ResetError)]
            /\ UNCHANGED <<call, last>>
       ELSE \E jitter \in Jitters :
               Invoke(t, [tool[t] EXCEPT !.retry =
                                     NewRetry(ConfigMaxRetries, 1000)], jitter)
    /\ UNCHANGED <<accessToken, refreshToken, tokenExpiry, hasCredentials, now, issued>>
    /\ UNCHANGED <<limiterVars, retry, parse, sse>>

\* the authorization server answers the tool call's grant with a token
AuthSucceeds(t) ==
    /\ tool[t].stage = "auth"
    /\ GrantSucceedsBody(t)
    /\ tool' = [tool EXCEPT ![t] =
                   AfterCall(@, CallAfter(t), SentBy(call[t]), 0)]
    /\ UNCHANGED <<limiterVars, retry, parse, sse>>

\* the tool call's grant fails
AuthFails(t) ==
    /\ tool[t].stage = "auth"
    /\ GrantFailsBody(t)
    /\ \E jitter \in Jitters :
          tool' = [tool EXCEPT ![t] =
                      AfterCall(@, CallAfter(t), SentBy(call[t]), jitter)]
    /\ UNCHANGED <<limiterVars, retry, parse, sse>>

\* the sleep of retryWithBackoff ends: the next invocation
RetrySleepDone(t) ==
    /\ tool[t].stage = "sleeping"
    /\ \E jitter \in Jitters :
          Invoke(t, [tool[t] EXCEPT !.retry.attempt = @ + 1], jitter)
    /\ UNCHANGED <<accessToken, refreshToken, tokenExpiry, hasCredentials, now, issued>>
    /\ UNCHANGED <<limiterVars, retry, parse, sse>>

\* the resource API answers: the payload is returned, or the tool throws the
\* classified error
ApiAnswered(t) ==
    /\ tool[t].stage = "api"
    /\ \E s \in {200} \cup FailStatus :
          tool' = [tool EXCEPT ![t] =
                      IF s = 200
                      THEN [@ EXCEPT !.stage = "done", !.result = Payload]
                      ELSE Fail(@, "api", ParseRedditError(AxiosError(s, <<>>)))]
    /\ UNCHANGED <<limiterVars, authVars, retry, parse, sse>>

NextDispatch ==
    \/ \E t \in ToolCalls : CallTool(t)
    \/ \E t \in ToolCalls : AcquireSettled(t)
    \/ \E t \in ToolCalls : AuthSucceeds(t)
    \/ \E t \in ToolCalls : AuthFails(t)
    \/ \E t \in ToolCalls : RetrySleepDone(t)
    \/ \E t \in ToolCalls : ApiAnswered(t)
    \/ \E c \in OtherCallers : Acquire(c)
    \/ TimerFire
    \/ Reset
    \/ TickToken

SpecDispatch == InitAuthOnly /\ [][NextDispatch]_vars

----------------------------------------------------------------------------
(* The SSE endpoints: GET /sse and POST /message *)

\* the transport POST /message looks up for sessionId s (0: none) in
\* activeTransports with keys active: the one stored under s, else the only
\* one there is, else none
LookupTransport(s, active) ==
    LET found == IF s # 0 /\ s \in active THEN s ELSE 0 IN
    IF found = 0 /\ Cardinality(active) = 1
    THEN CHOOSE i \in active : TRUE
    ELSE found

\* what POST /message does with the transport it found (0: none), whose
\* handlePostMessage throws or not
AnswerPost(s, active, transport, throws) ==
    IF transport # 0
    THEN [sessionId |-> s, active |-> active, delivered |-> transport,
          status |-> IF throws THEN 500 ELSE 0]
    ELSE [sessionId |-> s, active |-> active, delivered |-> 0, status |-> 404]

\* GET /sse: a transport with a new session id is created and stored, and
\* server.connect is awaited
GetSse(i) ==
    /\ sse.session[i].conn = "none"
    /\ sse' = [sse EXCEPT !.session[i].conn = "connecting",
                          !.active = @ \cup {i}]
    /\ UNCHANGED <<limiterVars, authVars, retry, parse, tool>>

\* server.connect has completed: the close listener is registered
ConnectSucceeds(i) ==
    /\ sse.session[i].conn = "connecting"
    /\ sse' = [sse EXCEPT !.session[i].conn = "open",
                          !.session[i].listener = TRUE]
    /\ UNCHANGED <<limiterVars, authVars, retry, parse, tool>>

\* server.connect has failed: the catch block removes the session
ConnectFails(i) ==
    /\ sse.session[i].conn = "connecting"
    /\ sse' = [sse EXCEPT !.session[i].conn = "failed",
                          !.active = @ \ {i}]
    /\ UNCHANGED <<limiterVars, authVars, retry, parse, tool>>

\* the response stream of connection i closes: the 'close' event is emitted
\* once, to the listeners registered by then
CloseStream(i) ==
    /\ sse.session[i].conn # "none"
    /\ ~sse.session[i].closed
    /\ sse' = [sse EXCEPT !.session[i].closed = TRUE,
                          !.active = IF sse.session[i].listener THEN @ \ {i}
                                     ELSE @]
    /\ UNCHANGED <<limiterVars, authVars, retry, parse, tool>>

\* POST /message with sessionId s (0: none)
PostMessage(s) ==
    /\ \E throws \in BOOLEAN :
          sse' = [sse EXCEPT !.post =
                     AnswerPost(s, sse.active,
                                LookupTransport(s, sse.active), throws)]
    /\ UNCHANGED <<limiterVars, authVars, retry, parse, tool>>

NextSse ==
    \/ \E i \in SessionIds : GetSse(i)
    \/ \E i \in SessionIds : ConnectSucceeds(i)
    \/ \E i \in SessionIds : ConnectFails(i)
    \/ \E i \in SessionIds : CloseStream(i)
    \/ \E s \in {0} \cup SessionIds : PostMessage(s)

\* the server in SSE mode before its first connection
InitSseOnly == InitLimiter /\ AuthFresh /\ InitUtil

SpecSse == InitSseOnly /\ [][NextSse]_vars

----------------------------------------------------------------------------
(* The two components side by side *)

Init == InitAuthOnly

Next == NextLimiter \/ NextAuth

Spec == Init /\ [][Next]_vars

----------------------------------------------------------------------------
(* Claims about the RateLimiter *)

\* C1: tokens are granted in arrival order.  The queue holds the waiting
\* callers in arrival order, so a caller whose acquire() is granted at once
\* has arrived after every caller still in the queue: the claim says that an
\* acquire() is granted at once only when nobody is queued.
C1_GrantedInArrivalOrder ==
    (ev.op = "acquire" /\ ev.resolved # <<>>) => queue = <<>>

\* C2: without reset(), with time advancing and due timers eventually run,
\* every queued acquire() is eventually granted, also while other callers
\* keep calling acquire().
C2_EventuallyGranted ==
    \A c \in Callers : (pc[c] = "waiting") ~> (pc[c] = "granted")

\* C3: in every reachable state 0 <= tokens <= maxTokens, and a step that
\* lowers the token count a refill would give (a consumption, by acquire()
\* or by processQueue) starts from a refilled count of at least one token
\* and takes one token for each promise it resolves.
C3_Range == tokens >= 0 /\ tokens <= maxTokens

C3_Step ==
    RefillTokens(tokens', elapsed') < RefillTokens(tokens, elapsed) =>
        /\ RefillTokens(tokens, elapsed) >= OneToken
        /\ ev'.resolved # <<>>
        /\ tokens' = RefillTokens(tokens, elapsed) - Len(ev'.resolved) * OneToken
        /\ tokens' >= 0

C3_TokensInRange == [][C3_Step]_vars /\ []C3_Range

C3_Witness ==
    /\ ev.op = "timer"
    /\ ev.resolved # <<>>
    /\ tokens < OneToken
    /\ \E c \in Callers : pc[c] = "rejected"

\* C4: a waiter leaves the queue exactly once, either resolved together with
\* the consumption of one token or rejected by reset(); nothing but reset()
\* rejects, and a promise that is pending is in the queue (exactly once).
C4_Leaves(c) ==
    \/ /\ pc'[c] = "granted"
       /\ c \in Range(ev'.resolved)
       /\ ev'.rejected = <<>>
       /\ ev'.op = "timer"
       /\ tokens' = RefillTokens(tokens, elapsed) - Len(ev'.resolved) * OneToken
    \/ /\ pc'[c] = "rejected"
       /\ c \in Range(ev'.rejected)
       /\ ev'.resolved = <<>>
       /\ ev'.op = "reset"

C4_Step ==
    \A c \in Callers :
        /\ (c \in Range(queue) /\ c \notin Range(queue')) => C4_Leaves(c)
        /\ (pc[c] # "rejected" /\ pc'[c] = "rejected") => ev'.op = "reset"
        /\ (pc[c] = "waiting" /\ pc'[c] # "waiting") => c \notin Range(queue')

C4_Queued ==
    /\ \A c \in Callers : pc[c] = "waiting" <=> c \in Range(queue)
    /\ \A i, j \in 1..Len(queue) : queue[i] = queue[j] => i = j

C4_WaitersSettled == [][C4_Step]_vars /\ []C4_Queued

C4_Witness ==
    /\ ev.op = "timer"
    /\ ev.resolved # <<>>
    /\ queue # <<>>
    /\ \E c \in Callers : pc[c] = "rejected"

\* C5: reset() fills the bucket, rejects every waiter queued at that moment
\* with 'Rate limiter reset' and empties the queue; the next acquire() is
\* granted without queuing; a timer firing later grants nothing to a waiter
\* that was rejected.
C5_AfterReset ==
    ev.op = "reset" =>
        /\ tokens = maxTokens
        /\ queue = <<>>
        /\ \A c \in Range(ev.rejected) : pc[c] = "rejected"
        /\ ev.rejected # <<>> => ev.error = "Rate limiter reset"

C5_Step ==
    /\ (queue # <<>> /\ ev'.op = "reset") => ev'.rejected = queue
    /\ (ev.op = "reset" /\ ev'.op = "acquire") =>
           (ev'.resolved = <<ev'.who>> /\ queue' = <<>>)
    /\ \A c \in Callers :
           (pc[c] = "rejected" /\ ev'.op = "timer") =>
               (pc'[c] = "rejected" /\ c \notin Range(ev'.resolved))

C5_Reset == [][C5_Step]_vars /\ []C5_AfterReset

C5_Witness ==
    /\ ev.op = "timer"
    /\ timers # <<>>
    /\ \E c \in Callers : pc[c] = "rejected"
    /\ \E c \in Callers : pc[c] = "granted"

----------------------------------------------------------------------------
(* Claims about RedditAuth *)

\* the getAccessToken() calls in progress and the one that completed last
GetCalls ==
    {c \in {call[p] : p \in Tasks} \cup {last} : c.op = "getAccessToken"}

Done(c) == c.pc = "done"

\* the refresh grant of call c was sent and answered with a failure
RefreshFailed(c) ==
    /\ c.log # <<>>
    /\ c.log[1].m = "refresh"
    /\ c.log[1].sent
    /\ c.log[1].status \notin {0, 200}

\* the requests call c has sent
Requests(c) == {i \in 1..Len(c.log) : c.log[i].sent}

\* call c was answered from the cache
FromCache(c) == Done(c) /\ c.log = <<>> /\ c.result.kind = "ok"

\* C6 as stated: with a refresh token stored and no valid cached token the
\* refresh grant is issued first; when it fails a password grant is issued
\* next, its access token is what the call returns, and the refresh failure
\* is not what the call throws.
C6_Fallback(c, passwordSent) ==
    /\ c.log # <<>>
    /\ c.log[1] = Attempt("refresh", TRUE, c.log[1].status)
    /\ RefreshFailed(c) =>
          /\ Len(c.log) = 2
          /\ c.log[2].m = "password"
          /\ passwordSent => c.log[2].sent
          /\ (Done(c) /\ c.log[2].status = 200) =>
                 (c.result = Returned(c.response) /\ c.response # 0)
          /\ Done(c) => c.result.by # "refresh"

C6_RefreshThenPasswordGrant ==
    \A c \in GetCalls :
        (c.hadRefresh /\ c.cache # "fresh") => C6_Fallback(c, TRUE)

\* C6 as amended: the password grant is issued when username and password
\* are configured; without them the call fails with the AuthenticationError
\* of authenticateWithPassword() and no password request is made.
C6_RefreshThenPassword ==
    \A c \in GetCalls :
        (c.hadRefresh /\ c.cache # "fresh") =>
            /\ C6_Fallback(c, hasCredentials)
            /\ (RefreshFailed(c) /\ ~hasCredentials) =>
                   /\ c.log[2] = Attempt("password", FALSE, 0)
                   /\ c.result = Thrown("password", ConfigError)

C6_Witness ==
    /\ last.op = "getAccessToken"
    /\ last.hadRefresh
    /\ RefreshFailed(last)
    /\ Len(last.log) = 2
    /\ last.log[2] = Attempt("password", TRUE, 200)
    /\ last.result.kind = "ok"
    /\ accessToken = last.result.token

\* the first call on an instance with username and password, no refresh
\* token and nothing cached: one password grant, no refresh grant, and the
\* token of the response is returned
C7_FirstCall(c) ==
    (hasCredentials /\ ~c.hadRefresh /\ c.cache = "none") =>
        /\ Len(c.log) = 1
        /\ c.log[1] = Attempt("password", TRUE, c.log[1].status)
        /\ (Done(c) /\ c.log[1].status = 200) =>
               (c.result = Returned(c.response) /\ c.response # 0)

\* a later call is answered from the cache with the cached token
C7_Cached(c) ==
    /\ c.log = <<>>
    /\ Done(c)
    /\ c.cacheTok # 0
    /\ c.result = Returned(c.cacheTok)

\* C7 as stated: the later call is any call made before the token's expiry.
C7_NoRequestBeforeExpiry ==
    \A c \in GetCalls :
        /\ C7_FirstCall(c)
        /\ c.cache \in {"margin", "fresh"} => C7_Cached(c)

\* C7 as amended: the later call is one made more than 60 000 ms before the
\* token's expiry.
C7_NoRequestBeforeMargin ==
    \A c \in GetCalls :
        /\ C7_FirstCall(c)
        /\ c.cache = "fresh" => C7_Cached(c)

C7_Witness ==
    /\ hasCredentials
    /\ refreshToken = 0
    /\ issued = 1
    /\ last.op = "getAccessToken"
    /\ last.cache = "fresh"
    /\ last.result = Returned(1)
    /\ last.log = <<>>

\* a call is answered from the cache exactly when a token is cached and the
\* time is strictly less than tokenExpiry - 60 000; the token served has
\* more than 60 s of lifetime left
C8_CacheIff(c) ==
    /\ Done(c) => (FromCache(c) <=> c.cache = "fresh")
    /\ FromCache(c) => (c.left > 60000 /\ c.result = Returned(c.cacheTok))

\* C8 as stated: in every other state at least one authentication request
\* is issued.
C8_CachedOrRequest ==
    \A c \in GetCalls :
        /\ C8_CacheIff(c)
        /\ c.cache # "fresh" => Requests(c) # {}

\* C8 as amended: in every other state an authentication request is issued,
\* except that with no refresh token stored and no username or password
\* configured the call fails without a request.
C8_CachedOrAuthenticates ==
    \A c \in GetCalls :
        /\ C8_CacheIff(c)
        /\ c.cache # "fresh" =>
              \/ Requests(c) # {}
              \/ /\ ~c.hadRefresh
                 /\ ~hasCredentials
                 /\ c.result = Thrown("password", ConfigError)

C8_Witness ==
    /\ last.op = "getAccessToken"
    /\ last.cache = "margin"
    /\ Requests(last) # {}
    /\ \E p \in Tasks : call[p].op = "getAccessToken" /\ call[p].cache = "margin"

\* the error the last attempted method of c fails with
AttemptError(a) ==
    IF a.sent THEN ParseRedditError(AxiosError(a.status, <<>>)) ELSE ConfigError

\* C9: getAccessToken() fails exactly when the last method it attempted
\* fails, with that method's error; a refresh grant that succeeds is the only
\* attempt, one that fails is followed by the password method, and the error
\* of a refresh grant is never what the caller receives.
C9_FailsWithLastAttempt ==
    \A c \in GetCalls :
        /\ Done(c) =>
              LET failed == c.log # <<>> /\ c.log[Len(c.log)].status # 200
              IN /\ c.result.kind = "err" <=> failed
                 /\ failed => c.result = Thrown(c.log[Len(c.log)].m,
                                                AttemptError(c.log[Len(c.log)]))
                 /\ c.result.by # "refresh"
        /\ (c.log # <<>> /\ c.log[1].m = "refresh" /\ c.log[1].status = 200) =>
               Len(c.log) = 1
        /\ RefreshFailed(c) => (Len(c.log) = 2 /\ c.log[2].m = "password")

C9_Witness ==
    /\ last.op = "getAccessToken"
    /\ RefreshFailed(last)
    /\ Len(last.log) = 2
    /\ last.log[2] = Attempt("password", TRUE, 503)
    /\ last.result = Thrown("password", ParseRedditError(AxiosError(503, <<>>)))

\* C10: a revokeToken() that sent its request leaves accessToken = null and
\* tokenExpiry = 0 when it completes, whether the request succeeded or
\* failed; without a cached token it sends nothing and changes nothing.
C10_Step ==
    /\ \A p \in Tasks :
          (call[p].pc = "revoke" /\ call'[p].pc = "idle") =>
              /\ accessToken' = 0
              /\ tokenExpiry' = 0
              /\ ~IsAuthenticated(accessToken', tokenExpiry', now')
    /\ (accessToken = 0 /\ call' = call /\ last' # last /\ last'.op = "revokeToken") =>
          /\ last'.log = <<>>
          /\ UNCHANGED <<accessToken, tokenExpiry, refreshToken>>

C10_RevokeClears == [][C10_Step]_vars

----------------------------------------------------------------------------
(* Claims about the error handler *)

NonRetryableNames == {"AuthenticationError", "ForbiddenError", "NotFoundError"}

C12_AtMostMaxRetriesPlusOne ==
    /\ retry.calls <= retry.maxRetries + 1
    /\ retry.pc = "sleeping" => retry.calls <= retry.maxRetries
    /\ retry.pc = "returned" =>
          retry.value = 1 /\ retry.calls = retry.attempt + 1
    /\ (retry.pc = "thrown" /\ retry.thrown.name \notin NonRetryableNames) =>
          /\ retry.calls = retry.maxRetries + 1
          /\ retry.thrown.name # "NonError" => retry.raised = retry.thrown
    /\ (retry.calls = retry.maxRetries + 1
           /\ retry.pc \notin {"calling", "returned"}) => retry.pc = "thrown"

\* fn failed twice and then succeeded, with maxRetries = 3
C12_Witness ==
    /\ retry.pc = "returned"
    /\ retry.maxRetries = 3
    /\ retry.calls = 3
    /\ retry.slept = 2

\* C13: the wait between failed attempt a and the next attempt is exactly
\* retryAfter * 1000 ms when the failure is a RateLimitError, and otherwise a
\* delay d with baseDelay * 2^a <= d < baseDelay * 2^a + 1000; there is one
\* wait for each attempt but the last, so none after the final attempt.
C13_Waits ==
    /\ retry.pc = "sleeping" =>
          /\ retry.attempt < retry.maxRetries
          /\ retry.slept = retry.attempt + 1
          /\ IF retry.thrown.name = "RateLimitError"
             THEN retry.thrown.retryAfter # NaN =>
                      retry.sleep = retry.thrown.retryAfter * 1000
             ELSE /\ retry.baseDelay * 2 ^ retry.attempt <= retry.sleep
                  /\ retry.sleep < retry.baseDelay * 2 ^ retry.attempt + 1000
    /\ retry.pc \in {"returned", "thrown"} =>
          retry.slept = retry.calls - 1 /\ retry.slept <= retry.maxRetries

C13_Witness ==
    /\ retry.pc = "sleeping"
    /\ retry.attempt = 2
    /\ retry.thrown.errorCode = "SERVICE_UNAVAILABLE"
    /\ retry.baseDelay = 100
    /\ retry.sleep = 900

\* the kind of a RedditAPIError
Kind(error) ==
    IF error.name = "AuthenticationError" THEN "Authentication"
    ELSE IF error.name = "ForbiddenError" THEN "Forbidden"
    ELSE IF error.name = "NotFoundError" THEN "NotFound"
    ELSE IF error.name = "RateLimitError" THEN "RateLimit"
    ELSE IF error.name = "RedditAPIError" /\ error.errorCode = "SERVICE_UNAVAILABLE"
    THEN "ServiceUnavailable"
    ELSE IF error.name = "RedditAPIError" THEN "Unknown"
    ELSE "none"

\* the kind the claim gives to a transport failure
C14_Kind(error) ==
    IF error.name # "AxiosError" THEN "Unknown"
    ELSE CASE error.statusCode = 401 -> "Authentication"
           [] error.statusCode = 403 -> "Forbidden"
           [] error.statusCode = 404 -> "NotFound"
           [] error.statusCode = 429 -> "RateLimit"
           [] error.statusCode \in {500, 502, 503, 504} -> "ServiceUnavailable"
           [] OTHER -> "Unknown"

\* the number a header made of digits denotes
RECURSIVE C14_Decimal(_)
C14_Decimal(h) ==
    IF h = <<>> THEN 0
    ELSE h[Len(h)] + 10 * C14_Decimal(SubSeq(h, 1, Len(h) - 1))

----------------------------------------------------------------------------
(* Claims about the methods of RedditAuth *)

\* a completed call that met its precondition failure: password
\* authentication without username or password, refresh without a stored
\* refresh token
C15_Unconfigured(c) ==
    \/ c.op = "authenticateWithPassword" /\ ~hasCredentials
    \/ c.op = "authenticateWithRefreshToken" /\ ~c.hadRefresh

\* the error is rethrown by retryWithBackoff after one invocation, without a
\* sleep, whatever maxRetries is
C15_NotRetried(error) ==
    \A m \in 0..MaxRetries, j \in Jitters :
        LET r == Catch(EnterLoop(NewRetry(m, 1000)), error, j)
        IN r.pc = "thrown" /\ r.raised = error /\ r.calls = 1 /\ r.slept = 0

C15_State ==
    /\ \A p \in Tasks : ~C15_Unconfigured(call[p])
    /\ C15_Unconfigured(last) =>
          /\ last.result.kind = "err"
          /\ last.result.error.name = "AuthenticationError"
          /\ \A i \in 1..Len(last.log) : ~last.log[i].sent
          /\ C15_NotRetried(last.result.error)

C15_Step ==
    (last' # last /\ C15_Unconfigured(last')) =>
        UNCHANGED <<accessToken, tokenExpiry, refreshToken, issued>>

\* C15: authenticateWithPassword() without username or password, and
\* authenticateWithRefreshToken() without a stored refresh token, throw an
\* AuthenticationError at once: the call is never waiting for a response, it
\* has sent no request, accessToken, tokenExpiry and refreshToken are as they
\* were, and retryWithBackoff rethrows the error after that one invocation.
C15_FailsWithoutRequest == []C15_State /\ [][C15_Step]_vars

C15_Witness ==
    /\ last.op = "authenticateWithRefreshToken"
    /\ ~last.hadRefresh
    /\ last.result.kind = "err"
    /\ accessToken # 0

\* C16: a successful token response, to either grant, sets accessToken to
\* the token of the response and tokenExpiry to the time of receipt plus
\* expires_in * 1000 ms; the stored refresh token becomes the one the
\* response carries when it carries one, and is unchanged when it carries
\* none.
C16_Step ==
    (issued' = issued + 1) =>
        /\ last'.result.kind = "ok"
        /\ accessToken' = last'.response
        /\ tokenExpiry' = now + last'.expiresIn * 1000
        /\ refreshToken' = IF last'.carried # 0 THEN last'.carried
                           ELSE refreshToken

C16_SuccessSetsFields == [][C16_Step]_vars

C16_Witness ==
    /\ last.op = "authenticateWithRefreshToken"
    /\ last.result.kind = "ok"
    /\ last.carried = 0
    /\ refreshToken = ConfigRefreshToken
    /\ accessToken = last.response
    /\ tokenExpiry = now + 120000
    /\ now > 0

C17_State ==
    last.op = "isAuthenticated" =>
        /\ last.answer = "true" <=> last.cache \in {"margin", "fresh"}
        /\ last.answer = "false" <=> last.cache \in {"none", "expired"}

C17_Step ==
    (last' # last /\ last'.op = "isAuthenticated") =>
        UNCHANGED <<accessToken, tokenExpiry, refreshToken, issued, now>>

\* C17: isAuthenticated() returns true exactly when a token is cached and
\* the time is before tokenExpiry, the last 60 s before the expiry included,
\* and changes nothing; so it returns false when no token is cached (a fresh
\* instance, after a successful revokeToken()) and from tokenExpiry on.
C17_IsAuthenticated == []C17_State /\ [][C17_Step]_vars

C17_Witness ==
    /\ last.op = "isAuthenticated"
    /\ last.cache = "margin"
    /\ last.answer = "true"

----------------------------------------------------------------------------
(* Claims about the RateLimiter, continued *)

\* the tokens of the bucket once refilled for the time that has passed
Available == Min(maxTokens, tokens + elapsed * refillRate)

C18_State ==
    burst >= 0 =>
        /\ burst <= RequestsPerMinute =>
              /\ tokens = (RequestsPerMinute - burst) * OneToken
              /\ queue = <<>>
              /\ timers = <<>>
              /\ \A c \in Callers : pc[c] \in {"idle", "granted"}
        /\ burst > RequestsPerMinute =>
              /\ tokens = 0
              /\ Len(queue) = burst - RequestsPerMinute
              /\ \A i \in 1..Len(queue) : pc[queue[i]] = "waiting"
        /\ ev.op = "acquire" =>
              IF burst <= RequestsPerMinute
              THEN ev.resolved = <<ev.who>> /\ pc[ev.who] = "granted"
              ELSE ev.resolved = <<>> /\ queue[Len(queue)] = ev.who
        /\ ev.op = "getStatus" =>
              ev.status.remaining = Max(0, RequestsPerMinute - burst)

C18_Step ==
    \A c \in Callers :
        (pc[c] = "waiting" /\ pc'[c] = "granted") =>
            /\ burst < 0
            /\ Available >= OneToken

\* C18: on a limiter just constructed with capacity C, while no time passes,
\* each of the first C acquire() calls is granted at once without being
\* queued and takes one token, so that getStatus().remaining is C less the
\* number of calls; the call after them is queued, and a queued call is
\* granted only once enough time has passed to refill the token it takes.
C18_BurstThenQueue == []C18_State /\ [][C18_Step]_vars

C18_Witness ==
    /\ burst = RequestsPerMinute + 1
    /\ Len(queue) = 1
    /\ tokens = 0
    /\ ev.op = "getStatus"
    /\ ev.status.remaining = 0

C19_Step ==
    (ev'.op = "getStatus" /\ elapsed' = 0) =>
        /\ ev'.status.total = RequestsPerMinute
        /\ ev'.status.remaining = Available \div OneToken
        /\ 0 <= ev'.status.remaining
        /\ ev'.status.remaining <= ev'.status.total
        /\ elapsed >= MsPerMinute => ev'.status.remaining = RequestsPerMinute
        /\ tokens' = Available
        /\ UNCHANGED <<queue, timers, pc>>

\* C19: getStatus() returns total = capacity and remaining = the whole
\* tokens of the bucket refilled for the time passed, floor(min(capacity,
\* tokens + elapsed * refillRate)); so 0 <= remaining <= total, and
\* remaining = capacity after capacity / refillRate = 60000 ms without a
\* refill.  It takes no token, settles no waiter, leaves the queue as it is
\* and schedules no timer.
C19_GetStatus == [][C19_Step]_vars

C19_Witness ==
    /\ ev.op = "getStatus"
    /\ ev.status.remaining = 1
    /\ tokens > OneToken
    /\ tokens < 2 * OneToken
    /\ elapsed = 0

C20_State ==
    /\ \A i, j \in 1..Len(queue) : i # j => queue[i] # queue[j]
    /\ \A c \in Callers : pc[c] = "waiting" <=> c \in Range(queue)

C20_Step ==
    /\ \A i, j \in 1..Len(queue) :
          (i < j /\ pc'[queue[j]] = "granted") =>
              pc'[queue[i]] \in {"granted", "waiting"}
                  /\ queue[i] \notin Range(queue')
    /\ \A i, j \in 1..Len(queue) :
          (i < j /\ queue[i] \in Range(queue') /\ queue[j] \in Range(queue')) =>
              \E k, l \in 1..Len(queue') :
                  k < l /\ queue'[k] = queue[i] /\ queue'[l] = queue[j]

\* C20: the waiters of the queue are granted in the order in which they were
\* enqueued: the queue keeps that order, and whenever a waiter is resolved
\* every waiter enqueued before it has left the queue, however many timers
\* have fired or been scheduled before.
C20_QueueIsFifo == []C20_State /\ [][C20_Step]_vars

C20_Witness ==
    /\ ev.op = "timer"
    /\ Len(ev.resolved) = 1
    /\ queue # <<>>
    /\ Len(timers) >= 2

----------------------------------------------------------------------------
(* Claims about the dispatcher *)

\* the error a failed stage of tool call tl throws
C21_Thrown(tl) ==
    CASE tl.result.stage = "acquire" -> ResetError
      [] tl.result.stage = "auth" -> tl.retry.raised
      [] tl.result.stage = "tool" -> UnknownToolError
      [] OTHER -> tl.result.error

\* C21: a tool call that has completed has a result, the payload or an
\* isError result with the message of the error of the stage that failed
\* (missing arguments, rejected acquire(), authentication after the retries,
\* the API call, an unknown tool name), and no exception has left the
\* handler.
C21_AlwaysAResult ==
    \A t \in ToolCalls :
        LET tl == tool[t] IN
        /\ ~tl.escaped
        /\ tl.result.done <=> tl.stage = "done"
        /\ tl.stage = "done" =>
              IF tl.result.isError
              THEN /\ tl.result.stage \in {"args", "acquire", "auth", "tool", "api"}
                   /\ tl.result.error = C21_Thrown(tl)
                   /\ tl.result.stage = "args" <=> tl.result.error = NoError
                   /\ tl.result.stage = "acquire" <=> pc[t] = "rejected"
                   /\ tl.result.stage = "auth" <=> tl.retry.pc = "thrown"
                   /\ tl.result.stage = "tool" <=>
                          (tl.client /\ tl.name = "unknown")
                   /\ tl.result.stage = "api" <=> tl.apiSent
              ELSE tl.result = Payload /\ tl.apiSent /\ tl.name = "known"

\* authentication failed after a retry
C21_Witness ==
    /\ tool[1].stage = "done"
    /\ tool[1].result.isError
    /\ tool[1].result.stage = "auth"
    /\ tool[1].retry.calls = 2
    /\ tool[1].result.error.errorCode = "SERVICE_UNAVAILABLE"

C24_State ==
    \A t \in ToolCalls :
        /\ (tool[t].authSent > 0 \/ call[t].pc # "idle" \/ tool[t].apiSent) =>
              pc[t] = "granted"
        /\ tool[t].apiSent => tool[t].client
        /\ tool[t].client => pc[t] = "granted"
        /\ pc[t] = "rejected" =>
              tool[t].authSent = 0 /\ ~tool[t].apiSent /\ call[t].pc = "idle"

C24_Step ==
    \A t \in ToolCalls :
        /\ (tool[t].stage = "idle" /\ pc'[t] = "granted") =>
              tokens' = Available - OneToken
        /\ (pc[t] = "waiting" /\ pc'[t] = "granted") =>
              /\ tokens' = Available - Len(ev'.resolved) * OneToken
              /\ Cardinality({i \in 1..Len(ev'.resolved) : ev'.resolved[i] = t}) = 1
        /\ (tool[t].stage # "idle" /\ tool'[t] # tool[t]) =>
              UNCHANGED <<tokens, elapsed, queue, timers, pc>>

\* C24: a tool call sends a request to the authorization server or to the
\* resource API only after its acquire() was granted, and its API request
\* only after it holds the authenticated client; the grant of its acquire()
\* takes one token and nothing the handler does afterwards, retries
\* included, touches the limiter; a call whose acquire() is rejected has
\* sent no request.
C24_AcquireThenAuthThenApi == []C24_State /\ [][C24_Step]_vars

\* the call was retried and then answered by the API
C24_Witness ==
    /\ tool[1].result = Payload
    /\ tool[1].retry.slept = 1
    /\ tool[1].authSent >= 2
    /\ tokens < maxTokens

----------------------------------------------------------------------------
(* Claims about concurrent calls on RedditAuth *)

\* call c is a getAccessToken() that found no valid token and waits for the
\* answer to its grant
InFlight(c) ==
    /\ c.op = "getAccessToken"
    /\ c.pc \in {"refresh", "password"}
    /\ c.cache \in {"none", "expired", "margin"}

C22_State ==
    (last.op = "getAccessToken" /\ last.result.kind = "ok" /\ last.log # <<>>) =>
        accessToken = last.response

C22_Step ==
    \A p \in Tasks : \A q \in Tasks \ {p} :
        (InFlight(call[p]) /\ InFlight(call[q]) /\ call'[p].pc = "idle"
         /\ issued' = issued + 1) =>
            /\ call'[q] = call[q]
            /\ accessToken' = last'.response
            /\ accessToken' # accessToken
            /\ tokenExpiry' = now + last'.expiresIn * 1000

\* C22: two getAccessToken() calls that found no valid token have their
\* grants in flight together; a response to one of them leaves the other in
\* flight and replaces accessToken and tokenExpiry by its own token and
\* expiry, so the fields are those of the response that arrived last.
C22_LastResponseWins == []C22_State /\ [][C22_Step]_vars

\* both found no token, the first response was stored and the second call
\* still waits for its own
C22_Witness ==
    /\ InFlight(call[2])
    /\ call[2].cache = "none"
    /\ last.op = "getAccessToken"
    /\ last.cache = "none"
    /\ last.result.kind = "ok"
    /\ issued = 1
    /\ accessToken = 1

\* the cached fields of the session
Session == <<accessToken, tokenExpiry, refreshToken>>

C23_Step ==
    /\ \A p \in Tasks :
          (call[p].pc \in {"refresh", "password"} /\ call'[p].pc = "idle"
           /\ last'.log[Len(last'.log)].status # 200) =>
              UNCHANGED Session
    /\ \A p \in Tasks :
          (call'[p] # call[p] /\ call'[p].pc = "idle" /\ last'.op = "getAccessToken"
           /\ last'.result.kind = "err") =>
              UNCHANGED Session
    /\ \A p \in Tasks :
          (call[p].pc = "refresh" /\ call'[p].pc = "password") =>
              UNCHANGED Session
    /\ Session' # Session =>
          \/ /\ issued' = issued + 1
             /\ last'.result.kind = "ok"
             /\ last'.log[Len(last'.log)] = Attempt(last'.log[Len(last'.log)].m, TRUE, 200)
          \/ /\ last'.op = "revokeToken"
             /\ last'.log = <<Attempt("revoke", TRUE, 200)>>

\* C23: a step in which a grant fails, and a step that completes a
\* getAccessToken() with an error, leave accessToken, tokenExpiry and
\* refreshToken as they were; the three fields change only in a step that
\* stores a successful token response or completes a successful revocation.
C23_FailureKeepsSession == [][C23_Step]_vars

\* a getAccessToken() failed on both grants next to a cached token
C23_Witness ==
    /\ last.op = "getAccessToken"
    /\ last.result.kind = "err"
    /\ Len(last.log) = 2
    /\ last.log[1].status = 401
    /\ last.log[2].status = 503
    /\ accessToken = 1
    /\ refreshToken = RotatedRefreshToken

C28_Step ==
    \A p \in MethodCallers :
        (call[p].pc = "revoke" /\ call'[p].pc = "idle") =>
            /\ refreshToken' = refreshToken
            /\ accessToken # call[p].submitted =>
                  UNCHANGED <<accessToken, tokenExpiry>>

\* C28: a revokeToken() that completes leaves the refresh token as it was,
\* and leaves accessToken and tokenExpiry as they were when the cached token
\* is no longer the one it submitted.
C28_RevokeClearsOnlySubmitted == [][C28_Step]_vars

----------------------------------------------------------------------------
(* Claims about the rate of the RateLimiter *)

\* C26: without reset(), the acquire() calls granted in an interval of T ms
\* are at most C + T * C / 60000 for capacity C, wherever the interval
\* begins and however acquire(), getStatus() and the timer callbacks
\* interleave.
C26_RateBound ==
    window.grants * MsPerMinute <=
        RequestsPerMinute * MsPerMinute + window.time * RequestsPerMinute

\* the bound is met: a full bucket at the start, then a grant per refilled
\* token
C26_Witness ==
    /\ window.st = "open"
    /\ window.time = 2 * TicksPerToken * TickMs
    /\ window.grants = RequestsPerMinute + 2
    /\ ev.op = "timer"
    /\ Len(timers) >= 2

\* the last operation of the limiter called scheduleRefill() with a waiter
\* in the queue
Scheduled ==
    \/ ev.op = "acquire" /\ ev.resolved = <<>>
    \/ ev.op = "timer" /\ queue # <<>>

\* C27: whenever the queue is not empty a timer is pending, and
\* scheduleRefill() sets a timer only with less than one token in the
\* bucket, with a delay of at least 1 ms.
C27_NoLostWakeup ==
    /\ queue # <<>> => timers # <<>>
    /\ Scheduled =>
          /\ tokens < OneToken
          /\ ev.delay = TimeToNextToken(tokens)
          /\ ev.delay >= 1

\* a timer has run, a waiter is left and the next timer is set
C27_Witness ==
    /\ ev.op = "timer"
    /\ ev.resolved # <<>>
    /\ queue # <<>>
    /\ ev.delay > 0
    /\ tokens > 0

----------------------------------------------------------------------------
(* Claims about errors classified twice *)

\* C30: parseRedditError applied to an error it has produced gives an error
\* of the same kind, status code and retryAfter, with the same retry
\* decision in retryWithBackoff.
C30_SameKindTwice ==
    parse.reapplied =>
        /\ Kind(parse.outer) = Kind(parse.output)
        /\ parse.outer.statusCode = parse.output.statusCode
        /\ parse.outer.retryAfter = parse.output.retryAfter
        /\ IsNonRetryable(parse.outer) <=> IsNonRetryable(parse.output)

----------------------------------------------------------------------------
(* Claims about the SSE endpoints *)

\* C25: a POST /message reaches a transport other than the one stored under
\* its sessionId only when it has no sessionId and one session is active; with
\* a sessionId that names no active session it is answered 404 and reaches
\* no transport.
C25_DeliveredToOwnSession ==
    LET p == sse.post IN
    /\ (p.delivered # 0 /\ p.delivered # p.sessionId) =>
          (p.sessionId = 0 /\ Cardinality(p.active) = 1)
    /\ (p.sessionId # 0 /\ p.sessionId \notin p.active) =>
          (p.status = 404 /\ p.delivered = 0)

\* C29: once the response stream of a connection has closed and
\* server.connect has completed or failed for it, whichever came first, its
\* session id is no longer in activeTransports.
C29_ClosedSessionRemoved ==
    \A i \in SessionIds :
        (sse.session[i].closed /\ sse.session[i].conn \in {"open", "failed"}) =>
            i \notin sse.active

====
